---- MODULE Spec2Model ----
(***************************************************************************)
(* State event envelope codec of ruma-events (src/src/state.rs):           *)
(*   - impl Serialize for StateEvent        (the encoder),                 *)
(*   - raw_state_event::StateEventVisitor   (the decoder's field walk),    *)
(*   - impl TryFromRaw for StateEvent       (raw event -> event).          *)
(* An encoded object is handed to the decoder as the sequence of entries   *)
(* the serializer wrote, which is what serde_json's MapAccess presents.    *)
(***************************************************************************)
EXTENDS Integers, Sequences, FiniteSets, TLC

VARIABLES
    pc,        \* position in the program
    event,     \* Option<StateEvent>: the event given to serialize
    timestamp, \* Option<UInt>: the local `timestamp` of serialize
    out,       \* fields written so far through SerializeStruct
    encoded,   \* Option<Result>: what serialize returned (or that it panicked)
    wire,      \* Option<object>: the JSON object given to deserialize
    pos,       \* index of the entry map.next_key() yields next
    visitor,   \* locals of visit_map, with its next_value and from_parts calls
    raw,       \* Option<Result<raw_state_event::StateEvent>>: visit_map's return
    decoded    \* Option<Result<StateEvent>>: try_from_raw's return

vars == <<pc, event, timestamp, out, encoded, wire, pos, visitor, raw, decoded>>

-----------------------------------------------------------------------------
(* Option and Result.  None is the empty sequence, Some(x) is <<x>>.       *)

None == <<>>
Some(x) == <<x>>
IsSome(o) == o # <<>>
Unwrap(o) == o[1]

Ok(x) == [ok |-> TRUE, val |-> <<x>>, err |-> <<>>]
Err(e) == [ok |-> FALSE, val |-> <<>>, err |-> <<e>>]

\* serde::de::Error / serde::ser::Error constructors used by the code.
Error(kind, field) == [kind |-> kind, field |-> field]
DuplicateFieldError(f) == Error("duplicate_field", f)
MissingFieldError(f) == Error("missing_field", f)
UnknownFieldError(k) == Error("unknown_field", k)
InvalidValueError(f) == Error("invalid_value", f)
CustomError(what) == Error("custom", what)
Panic(what) == Error("panic", what)

-----------------------------------------------------------------------------
(* Integers.  js_int::UInt holds 0 .. 2^53 - 1, more than a TLC integer,   *)
(* so an integer is kept as sign and two decimal limbs:                    *)
(*   value = (neg ? -1 : 1) * (hi * 10^9 + lo),  0 <= lo < 10^9.           *)

Int9(neg, hi, lo) == [neg |-> neg, hi |-> hi, lo |-> lo]
Zero == Int9(FALSE, 0, 0)
One == Int9(FALSE, 0, 1)
IsZero(n) == n.hi = 0 /\ n.lo = 0
IsNegative(n) == n.neg /\ ~IsZero(n)
\* a <= b for non-negative a, b
Leq(a, b) == a.hi < b.hi \/ (a.hi = b.hi /\ a.lo <= b.lo)
Succ(n) == IF n.lo = 999999999 THEN Int9(n.neg, n.hi + 1, 0) ELSE Int9(n.neg, n.hi, n.lo + 1)

\* js_int::MAX_SAFE_UINT = 2^53 - 1 = 9007199254740991
MAX_SAFE_UINT == Int9(FALSE, 9007199, 254740991)

-----------------------------------------------------------------------------
(* JSON values.  t is the JSON type; s the text of a string or the         *)
(* canonical text of an object; n the integer of a number.                 *)

JStr(s) == [t |-> "str", s |-> s, n |-> Zero]
JNum(n) == [t |-> "num", s |-> "", n |-> n]
JObj(s) == [t |-> "obj", s |-> s, n |-> Zero]
JNull == [t |-> "null", s |-> "", n |-> Zero]

Entry(k, v) == [key |-> k, val |-> v]
HasKey(obj, k) == \E i \in 1..Len(obj) : obj[i].key = k
Count(obj, k) == Cardinality({i \in 1..Len(obj) : obj[i].key = k})

-----------------------------------------------------------------------------
(* Timestamp codec.  A SystemTime is UNIX_EPOCH plus (before = FALSE) or   *)
(* minus (before = TRUE) a Duration of `millis` whole milliseconds and     *)
(* `nanos` (0 .. 999999) further nanoseconds.                              *)

Duration(millis, nanos) == [millis |-> millis, nanos |-> nanos]
SystemTime(before, millis, nanos) == [before |-> before, millis |-> millis, nanos |-> nanos]
UNIX_EPOCH == SystemTime(FALSE, Zero, 0)

\* SystemTime::duration_since(UNIX_EPOCH): Err when self is earlier.
duration_since_epoch(t) ==
    IF t.before /\ ~(IsZero(t.millis) /\ t.nanos = 0)
    THEN Err(Panic("duration_since"))
    ELSE Ok(Duration(t.millis, t.nanos))

\* Duration::as_millis: whole milliseconds, the sub-millisecond part dropped.
as_millis(d) == d.millis

\* UInt::try_from(u128): Err above MAX_SAFE_UINT.
UIntTryFrom(n) ==
    IF Leq(n, MAX_SAFE_UINT) THEN Ok(n) ELSE Err(CustomError("origin_server_ts"))

\* Duration::from_millis
from_millis(n) == Duration(n, 0)

\* UNIX_EPOCH + duration
EpochPlus(d) == SystemTime(FALSE, d.millis, d.nanos)

\* Lines 91-95 of serialize: Result<UInt>, a panic from unwrap() included.
ToTimestamp(t) ==
    LET since == duration_since_epoch(t) IN
    IF ~since.ok THEN since ELSE UIntTryFrom(as_millis(Unwrap(since.val)))

\* Line 286 of visit_map.
FromTimestamp(n) == EpochPlus(from_millis(n))

-----------------------------------------------------------------------------
(* Event content: AnyStateEventContent, generated by                        *)
(* event_content_collection! for "m.room.aliases" and "m.room.avatar".      *)
(* A content value is its enum variant and its body; the body stands for    *)
(* the fields of the variant's struct and is written as the JSON text they  *)
(* serialize to.                                                            *)

Content(variant, body) == [variant |-> variant, body |-> body]

AliasesBodies == {"{aliases:[#somewhere:localhost]}", "{aliases:[#inner:localhost]}"}
\* The avatar content of lines 462-477, with its info.
AvatarBody ==
    "{info:{h:423,mimetype:image/png,size:84242,thumbnail_info:{h:334,mimetype:image/png,size:82595,w:800},thumbnail_url:mxc://matrix.org,w:1011},url:http://www.matrix.org}"
AvatarBodies == {AvatarBody}

Contents ==
    {Content("RoomAliases", b) : b \in AliasesBodies}
        \cup {Content("RoomAvatar", b) : b \in AvatarBodies}

\* EventContent::event_type
event_type_of(c) ==
    IF c.variant = "RoomAliases" THEN "m.room.aliases" ELSE "m.room.avatar"

\* impl Serialize for the content: the variant's struct as a JSON object.
SerializeContent(c) == JObj(c.body)

\* RawEventContent::from_parts(event_type, raw): parse the raw JSON with the
\* schema the event type selects; Err for an unsupported event type or a
\* payload that does not match the schema.
from_parts(ev_type, rawJson) ==
    IF ev_type = "m.room.aliases" /\ rawJson.t = "obj" /\ rawJson.s \in AliasesBodies
    THEN Ok(Content("RoomAliases", rawJson.s))
    ELSE IF ev_type = "m.room.avatar" /\ rawJson.t = "obj" /\ rawJson.s \in AvatarBodies
    THEN Ok(Content("RoomAvatar", rawJson.s))
    ELSE Err(CustomError(ev_type))

\* C::try_from_raw for a content: neither of the two schemas validates further.
ContentTryFromRaw(c) == Ok(c)

(* UnsignedData: optional fields, all absent by default.  Modelled as the   *)
(* set of fields that are present.                                          *)
UnsignedDefault == {}
UnsignedWithAge == {"age:1234"}
UnsignedIsEmpty(u) == u = {}
SerializeUnsignedData(u) == IF u = {} THEN JObj("{}") ELSE JObj("{age:1234}")
DeserializeUnsignedData(v) ==
    IF v.t = "obj" /\ v.s = "{}" THEN Some(UnsignedDefault)
    ELSE IF v.t = "obj" /\ v.s = "{age:1234}" THEN Some(UnsignedWithAge)
    ELSE None

(* Identifiers (ruma_identifiers) and strings.  A typed identifier is the   *)
(* string it was validated from.                                            *)
EventIds == {"$h29iv0s8:example.com", "$other:example.com"}
UserIds == {"@carl:example.com"}
RoomIds == {"!roomid:room.com"}

DeserializeEventId(v) == IF v.t = "str" /\ v.s \in EventIds THEN Some(v.s) ELSE None
DeserializeUserId(v) == IF v.t = "str" /\ v.s \in UserIds THEN Some(v.s) ELSE None
DeserializeRoomId(v) == IF v.t = "str" /\ v.s \in RoomIds THEN Some(v.s) ELSE None
DeserializeString(v) == IF v.t = "str" THEN Some(v.s) ELSE None
\* Box<RawJsonValue>: any JSON value, kept unparsed.
DeserializeRawJson(v) == Some(v)
\* js_int::UInt: a JSON integer in 0 ..= MAX_SAFE_UINT.
DeserializeUInt(v) ==
    IF v.t = "num" /\ ~IsNegative(v.n) /\ Leq(v.n, MAX_SAFE_UINT) THEN Some(v.n) ELSE None

-----------------------------------------------------------------------------
(* StateEvent<C> (lines 27-57) and raw_state_event::StateEvent<C>           *)
(* (lines 135-162) have the same eight fields.                              *)

StateEvent(content, event_id, sender, origin_server_ts, room_id, state_key, prev_content, unsigned) ==
    [content |-> content, event_id |-> event_id, sender |-> sender,
     origin_server_ts |-> origin_server_ts, room_id |-> room_id,
     state_key |-> state_key, prev_content |-> prev_content, unsigned |-> unsigned]

-----------------------------------------------------------------------------
(* impl Serialize for StateEvent (lines 81-117).                            *)

\* Lines 99-105 with the first two calls exchanged.
StructFieldsContentFirst ==
    <<"content", "type", "event_id", "sender", "origin_server_ts", "room_id", "state_key">>

\* The serialize_field calls of lines 99-105, in program order.
StructFields ==
    <<"type", "content", "event_id", "sender", "origin_server_ts", "room_id", "state_key">>

\* The value each of those calls writes.
FieldValue(ev, ts, name) ==
    CASE name = "type" -> JStr(event_type_of(ev.content))
      [] name = "content" -> SerializeContent(ev.content)
      [] name = "event_id" -> JStr(ev.event_id)
      [] name = "sender" -> JStr(ev.sender)
      [] name = "origin_server_ts" -> JNum(ts)
      [] name = "room_id" -> JStr(ev.room_id)
      [] name = "state_key" -> JStr(ev.state_key)

\* Line 107: if let Some(content) = self.prev_content.as_ref()
EmitsPrevContent(ev) == IsSome(ev.prev_content)
PrevContentValue(ev) ==
    IF IsSome(ev.prev_content) THEN SerializeContent(Unwrap(ev.prev_content)) ELSE JNull

\* Line 111 as it would be without the is_empty() test.
EmitsUnsignedAlways(ev) == TRUE

\* Line 111: if !self.unsigned.is_empty()
EmitsUnsigned(ev) == ~UnsignedIsEmpty(ev.unsigned)

\* Lines 89-97: event_type, the timestamp conversion, serialize_struct.
SerializeStart ==
    /\ pc = "serialize"
    /\ LET ts == ToTimestamp(Unwrap(event).origin_server_ts) IN
       IF ts.ok
       THEN /\ timestamp' = ts.val
            /\ pc' = "fields"
            /\ encoded' = encoded
       ELSE /\ timestamp' = timestamp
            /\ pc' = "done"
            /\ encoded' = Some(ts)
    /\ UNCHANGED <<event, out, wire, pos, visitor, raw, decoded>>

\* Lines 99-105: the next of the seven unconditional serialize_field calls.
SerializeField ==
    /\ pc = "fields"
    /\ Len(out) < Len(StructFields)
    /\ LET name == StructFields[Len(out) + 1] IN
       out' = Append(out, Entry(name, FieldValue(Unwrap(event), Unwrap(timestamp), name)))
    /\ pc' = IF Len(out') = Len(StructFields) THEN "prev_content" ELSE "fields"
    /\ UNCHANGED <<event, timestamp, encoded, wire, pos, visitor, raw, decoded>>

\* Lines 107-109.
SerializePrevContent ==
    /\ pc = "prev_content"
    /\ out' = IF EmitsPrevContent(Unwrap(event))
              THEN Append(out, Entry("prev_content", PrevContentValue(Unwrap(event))))
              ELSE out
    /\ pc' = "unsigned"
    /\ UNCHANGED <<event, timestamp, encoded, wire, pos, visitor, raw, decoded>>

\* Lines 111-113.
SerializeUnsigned ==
    /\ pc = "unsigned"
    /\ out' = IF EmitsUnsigned(Unwrap(event))
              THEN Append(out, Entry("unsigned", SerializeUnsignedData(Unwrap(event).unsigned)))
              ELSE out
    /\ pc' = "end"
    /\ UNCHANGED <<event, timestamp, encoded, wire, pos, visitor, raw, decoded>>

\* Line 115: state.end() returns the object; it is then given to the decoder.
SerializeEnd ==
    /\ pc = "end"
    /\ encoded' = Some(Ok(out))
    /\ wire' = Some(out)
    /\ pc' = "deserialize"
    /\ UNCHANGED <<event, timestamp, out, pos, visitor, raw, decoded>>

-----------------------------------------------------------------------------
(* raw_state_event: the derived field identifier and the visitor.           *)

\* The variants of enum Field (lines 178-188), renamed to snake_case.
FIELDS ==
    {"type", "content", "event_id", "sender", "origin_server_ts", "room_id",
     "state_key", "prev_content", "unsigned"}

\* Deserialize for Field, derived with serde(field_identifier): the enum has
\* no serde(other) variant, so any other key is Err(unknown_field).
FieldOf(key) == IF key \in FIELDS THEN Some(key) ELSE None

\* Lines 208-216: every slot None.  `reads` counts the map.next_value()
\* calls made, `calls` lists the C::from_parts calls made, `err` holds the
\* error visit_map returned early with.
NewVisitor ==
    [content |-> None, event_type |-> None, event_id |-> None, sender |-> None,
     origin_server_ts |-> None, room_id |-> None, state_key |-> None,
     prev_content |-> None, unsigned |-> None,
     err |-> None, reads |-> 0, calls |-> <<>>]

\* return Err(de::Error::duplicate_field(name))
DuplicateField(l, name) == [l EXCEPT !.err = Some(DuplicateFieldError(name))]

\* slot = Some(map.next_value()?) where `parsed` is the typed value or None
NextValue(l, slot, name, parsed) ==
    IF IsSome(parsed)
    THEN [l EXCEPT ![slot] = parsed, !.reads = @ + 1]
    ELSE [l EXCEPT !.err = Some(InvalidValueError(name)), !.reads = @ + 1]

\* The content arm as it would be if the payload were resolved on sight,
\* with the `type` seen so far, instead of being kept raw.
ContentArmEager(l, v) ==
    IF IsSome(l.content) THEN DuplicateField(l, "content")
    ELSE IF ~IsSome(l.event_type) THEN [l EXCEPT !.err = Some(MissingFieldError("type"))]
    ELSE NextValue(
            [l EXCEPT !.calls = Append(@, [slot |-> "content",
                                           event_type |-> Unwrap(l.event_type)])],
            "content", "content", DeserializeRawJson(v))

\* The arms of the match (lines 220-273).
ContentArm(l, v) ==
    IF IsSome(l.content) THEN DuplicateField(l, "content")
    ELSE NextValue(l, "content", "content", DeserializeRawJson(v))
EventIdArm(l, v) ==
    IF IsSome(l.event_id) THEN DuplicateField(l, "event_id")
    ELSE NextValue(l, "event_id", "event_id", DeserializeEventId(v))
SenderArm(l, v) ==
    IF IsSome(l.sender) THEN DuplicateField(l, "sender")
    ELSE NextValue(l, "sender", "sender", DeserializeUserId(v))
\* The timestamp arm as it would be with a u64 slot instead of a UInt slot.
OriginServerTsArmU64(l, v) ==
    IF IsSome(l.origin_server_ts) THEN DuplicateField(l, "origin_server_ts")
    ELSE NextValue(l, "origin_server_ts", "origin_server_ts",
                   IF v.t = "num" /\ ~IsNegative(v.n) THEN Some(v.n) ELSE None)
OriginServerTsArm(l, v) ==
    IF IsSome(l.origin_server_ts) THEN DuplicateField(l, "origin_server_ts")
    ELSE NextValue(l, "origin_server_ts", "origin_server_ts", DeserializeUInt(v))
RoomIdArm(l, v) ==
    IF IsSome(l.room_id) THEN DuplicateField(l, "room_id")
    ELSE NextValue(l, "room_id", "room_id", DeserializeRoomId(v))
StateKeyArm(l, v) ==
    IF IsSome(l.state_key) THEN DuplicateField(l, "state_key")
    ELSE NextValue(l, "state_key", "state_key", DeserializeString(v))
PrevContentArm(l, v) ==
    IF IsSome(l.prev_content) THEN DuplicateField(l, "prev_content")
    ELSE NextValue(l, "prev_content", "prev_content", DeserializeRawJson(v))
\* The type arm as it would be without the is_some() check: the last value wins.
TypeArmLastWins(l, v) == NextValue(l, "event_type", "type", DeserializeString(v))
TypeArm(l, v) ==
    IF IsSome(l.event_type) THEN DuplicateField(l, "type")
    ELSE NextValue(l, "event_type", "type", DeserializeString(v))
UnsignedArm(l, v) ==
    IF IsSome(l.unsigned) THEN DuplicateField(l, "unsigned")
    ELSE NextValue(l, "unsigned", "unsigned", DeserializeUnsignedData(v))

\* map.next_key()? failing on a key Field does not know.
UnknownFieldArm(l, key) == [l EXCEPT !.err = Some(UnknownFieldError(key))]

\* One turn of the while loop (lines 218-275) on entry e.
VisitEntry(l, e) ==
    LET f == FieldOf(e.key) IN
    CASE f = Some("content") -> ContentArm(l, e.val)
      [] f = Some("event_id") -> EventIdArm(l, e.val)
      [] f = Some("sender") -> SenderArm(l, e.val)
      [] f = Some("origin_server_ts") -> OriginServerTsArm(l, e.val)
      [] f = Some("room_id") -> RoomIdArm(l, e.val)
      [] f = Some("state_key") -> StateKeyArm(l, e.val)
      [] f = Some("prev_content") -> PrevContentArm(l, e.val)
      [] f = Some("type") -> TypeArm(l, e.val)
      [] f = Some("unsigned") -> UnsignedArm(l, e.val)
      [] OTHER -> UnknownFieldArm(l, e.key)

\* ok_or_else as it would be if the sender line had been copied from the
\* event_id line with the field name left unchanged.
OkOrMissingCopied(slot, name) ==
    IF IsSome(slot) THEN Ok(Unwrap(slot))
    ELSE Err(MissingFieldError(IF name = "sender" THEN "event_id" ELSE name))

\* ok_or_else as it would be if state_key, which is often empty, were
\* taken with unwrap_or_default().
OkOrDefaultStateKey(slot, name) ==
    IF IsSome(slot) THEN Ok(Unwrap(slot))
    ELSE IF name = "state_key" THEN Ok("")
    ELSE Err(MissingFieldError(name))

\* Option::ok_or_else(|| de::Error::missing_field(name)) (lines 277-290).
OkOrMissing(slot, name) ==
    IF IsSome(slot) THEN Ok(Unwrap(slot)) ELSE Err(MissingFieldError(name))

\* C::from_parts(&event_type, raw).map_err(A::Error::custom) (lines 280, 293).
FromParts(ev_type, rawJson, slot) ==
    LET c == from_parts(ev_type, rawJson) IN
    IF c.ok THEN c ELSE Err(CustomError(slot))

\* Lines 277-310, after the loop: [res |-> the Result, calls |-> the
\* from_parts calls made so far, in order].
Resolve(l) ==
    LET ty == OkOrMissing(l.event_type, "type")
        rawc == OkOrMissing(l.content, "content")
    IN
    IF ~ty.ok THEN [res |-> ty, calls |-> l.calls]
    ELSE IF ~rawc.ok THEN [res |-> rawc, calls |-> l.calls]
    ELSE
    LET c == FromParts(Unwrap(ty.val), Unwrap(rawc.val), "content")
        call1 == Append(l.calls, [slot |-> "content", event_type |-> Unwrap(ty.val)])
        call2 == Append(call1, [slot |-> "prev_content", event_type |-> Unwrap(ty.val)])
        id == OkOrMissing(l.event_id, "event_id")
        snd == OkOrMissing(l.sender, "sender")
        ts == OkOrMissing(l.origin_server_ts, "origin_server_ts")
        room == OkOrMissing(l.room_id, "room_id")
        key == OkOrMissing(l.state_key, "state_key")
    IN
    IF ~c.ok THEN [res |-> c, calls |-> call1]
    ELSE IF ~id.ok THEN [res |-> id, calls |-> call1]
    ELSE IF ~snd.ok THEN [res |-> snd, calls |-> call1]
    ELSE IF ~ts.ok THEN [res |-> ts, calls |-> call1]
    ELSE IF ~room.ok THEN [res |-> room, calls |-> call1]
    ELSE IF ~key.ok THEN [res |-> key, calls |-> call1]
    ELSE
    LET p == IF IsSome(l.prev_content)
             THEN FromParts(Unwrap(ty.val), Unwrap(l.prev_content), "prev_content")
             ELSE c
        made == IF IsSome(l.prev_content) THEN call2 ELSE call1
    IN
    IF ~p.ok THEN [res |-> p, calls |-> made]
    ELSE [res |-> Ok(StateEvent(
                        Unwrap(c.val),
                        Unwrap(id.val),
                        Unwrap(snd.val),
                        FromTimestamp(Unwrap(ts.val)),
                        Unwrap(room.val),
                        Unwrap(key.val),
                        IF IsSome(l.prev_content) THEN p.val ELSE None,
                        IF IsSome(l.unsigned) THEN Unwrap(l.unsigned) ELSE UnsignedDefault)),
          calls |-> made]

\* try_from_raw as it would be if prev_content were not carried over.
TryFromRawWithoutPrev(r) ==
    LET c == ContentTryFromRaw(r.content) IN
    IF ~c.ok THEN c
    ELSE Ok(StateEvent(Unwrap(c.val), r.event_id, r.sender, r.origin_server_ts, r.room_id,
                       r.state_key, None, r.unsigned))

\* impl TryFromRaw for StateEvent (lines 67-78).
TryFromRaw(r) ==
    LET c == ContentTryFromRaw(r.content)
        p == IF IsSome(r.prev_content) THEN ContentTryFromRaw(Unwrap(r.prev_content)) ELSE c
    IN
    IF ~c.ok THEN c
    ELSE IF ~p.ok THEN p
    ELSE Ok(StateEvent(Unwrap(c.val), r.event_id, r.sender, r.origin_server_ts, r.room_id,
                       r.state_key,
                       IF IsSome(r.prev_content) THEN p.val ELSE None,
                       r.unsigned))

\* The whole of visit_map on an object, as a function of the object.
RECURSIVE WalkFrom(_, _, _)
WalkFrom(l, obj, i) ==
    IF IsSome(l.err) \/ i > Len(obj) THEN l
    ELSE WalkFrom(VisitEntry(l, obj[i]), obj, i + 1)

VisitMap(obj) ==
    LET l == WalkFrom(NewVisitor, obj, 1) IN
    IF IsSome(l.err) THEN Err(Unwrap(l.err)) ELSE Resolve(l).res

\* EventJson::deserialize: visit_map, then try_from_raw.
Decode(obj) ==
    LET r == VisitMap(obj) IN IF r.ok THEN TryFromRaw(Unwrap(r.val)) ELSE r

-----------------------------------------------------------------------------
(* The decoder's steps.                                                     *)

\* Lines 168-173 and 208-216: deserialize_map hands the object to visit_map.
Deserialize ==
    /\ pc = "deserialize"
    /\ IsSome(wire)
    /\ visitor' = NewVisitor
    /\ pos' = 1
    /\ pc' = "walk"
    /\ UNCHANGED <<event, timestamp, out, encoded, wire, raw, decoded>>

AtKey(name) ==
    /\ pc = "walk"
    /\ pos <= Len(Unwrap(wire))
    /\ FieldOf(Unwrap(wire)[pos].key) = name

\* The loop goes on with locals l, or visit_map returns l.err.
Continue(l) ==
    /\ visitor' = l
    /\ IF IsSome(l.err)
       THEN /\ raw' = Some(Err(Unwrap(l.err)))
            /\ pc' = "done"
            /\ pos' = pos
       ELSE /\ raw' = raw
            /\ pc' = "walk"
            /\ pos' = pos + 1
    /\ UNCHANGED <<event, timestamp, out, encoded, wire, decoded>>

VisitContent == AtKey(Some("content")) /\ Continue(ContentArm(visitor, Unwrap(wire)[pos].val))
VisitEventId == AtKey(Some("event_id")) /\ Continue(EventIdArm(visitor, Unwrap(wire)[pos].val))
VisitSender == AtKey(Some("sender")) /\ Continue(SenderArm(visitor, Unwrap(wire)[pos].val))
VisitOriginServerTs ==
    AtKey(Some("origin_server_ts")) /\ Continue(OriginServerTsArm(visitor, Unwrap(wire)[pos].val))
VisitRoomId == AtKey(Some("room_id")) /\ Continue(RoomIdArm(visitor, Unwrap(wire)[pos].val))
VisitStateKey == AtKey(Some("state_key")) /\ Continue(StateKeyArm(visitor, Unwrap(wire)[pos].val))
VisitPrevContent ==
    AtKey(Some("prev_content")) /\ Continue(PrevContentArm(visitor, Unwrap(wire)[pos].val))
VisitType == AtKey(Some("type")) /\ Continue(TypeArm(visitor, Unwrap(wire)[pos].val))
VisitUnsigned == AtKey(Some("unsigned")) /\ Continue(UnsignedArm(visitor, Unwrap(wire)[pos].val))
VisitUnknown == AtKey(None) /\ Continue(UnknownFieldArm(visitor, Unwrap(wire)[pos].key))

\* map.next_key() returned None: lines 277-310.
Finish ==
    /\ pc = "walk"
    /\ pos > Len(Unwrap(wire))
    /\ LET r == Resolve(visitor) IN
       /\ visitor' = [visitor EXCEPT !.calls = r.calls]
       /\ raw' = Some(r.res)
       /\ pc' = IF r.res.ok THEN "try_from_raw" ELSE "done"
    /\ UNCHANGED <<event, timestamp, out, encoded, wire, pos, decoded>>

\* Lines 67-78 on the raw event visit_map returned.
ConvertRaw ==
    /\ pc = "try_from_raw"
    /\ decoded' = Some(TryFromRaw(Unwrap(Unwrap(raw).val)))
    /\ pc' = "done"
    /\ UNCHANGED <<event, timestamp, out, encoded, wire, pos, visitor, raw>>

-----------------------------------------------------------------------------
(* Inputs.                                                                  *)

\* At most this many edits are made to a well-formed object.
MaxEdits == 2

\* Events given to serialize.
Instants ==
    {UNIX_EPOCH,
     SystemTime(FALSE, One, 0),
     SystemTime(FALSE, One, 500000),
     SystemTime(FALSE, MAX_SAFE_UINT, 0),
     SystemTime(FALSE, MAX_SAFE_UINT, 999999),
     SystemTime(FALSE, Succ(MAX_SAFE_UINT), 0),
     SystemTime(TRUE, One, 0),
     SystemTime(TRUE, Zero, 1)}

Events ==
    {StateEvent(c, "$h29iv0s8:example.com", "@carl:example.com", t, "!roomid:room.com",
                k, p, u) :
        c \in Contents, t \in Instants, k \in {"", "@carl:example.com"},
        p \in {None} \cup {Some(x) : x \in Contents},
        u \in {UnsignedDefault, UnsignedWithAge}}

\* Objects given to deserialize: a well-formed object of one of the two
\* event types, with at most MaxEdits edits, its entries in one of Orders.
FieldOrder ==
    <<"type", "content", "event_id", "sender", "origin_server_ts", "room_id",
      "state_key", "prev_content", "unsigned">>
UnknownKeys == <<"age", "origin">>
Bases == {"m.room.aliases", "m.room.avatar"}
Orders == {"as_written", "reversed", "rotated"}

BaseValue(b, k) ==
    CASE k = "type" -> JStr(b)
      [] k = "content" ->
            IF b = "m.room.aliases" THEN JObj("{aliases:[#somewhere:localhost]}")
            ELSE JObj(AvatarBody)
      [] k = "event_id" -> JStr("$h29iv0s8:example.com")
      [] k = "sender" -> JStr("@carl:example.com")
      [] k = "origin_server_ts" -> JNum(One)
      [] k = "room_id" -> JStr("!roomid:room.com")
      [] k = "state_key" -> JStr("")
      [] k = "prev_content" ->
            IF b = "m.room.aliases" THEN JObj("{aliases:[#inner:localhost]}")
            ELSE JObj(AvatarBody)
      [] k = "unsigned" -> JObj("{age:1234}")
      [] OTHER -> JNum(One)

OtherBase(b) == IF b = "m.room.aliases" THEN "m.room.avatar" ELSE "m.room.aliases"

Alternatives(b, k) ==
    CASE k = "type" -> {JStr(OtherBase(b)), JStr("m.room.bogus"), JNum(One)}
      [] k = "content" -> {BaseValue(OtherBase(b), "content")}
      [] k = "event_id" -> {JStr("h29iv0s8"), JStr("$other:example.com")}
      [] k = "sender" -> {JStr("carl")}
      [] k = "room_id" -> {JStr("roomid")}
      [] k = "origin_server_ts" ->
            {JNum(Zero), JNum(MAX_SAFE_UINT), JNum(Succ(MAX_SAFE_UINT)),
             JNum(Int9(TRUE, 0, 1))}
      [] k = "state_key" -> {JStr("@carl:example.com"), JNum(One)}
      [] k = "prev_content" -> {BaseValue(OtherBase(b), "content")}
      [] k = "unsigned" -> {JObj("{}")}
      [] OTHER -> {}

Edit(op, k, v) == [op |-> op, key |-> k, val |-> v]

EditsOf(b) ==
    {Edit("omit", k, JNull) : k \in FIELDS}
        \cup UNION {{Edit("set", k, v) : v \in Alternatives(b, k)} : k \in FIELDS}
        \cup {Edit("repeat", k, BaseValue(b, k)) : k \in FIELDS}
        \cup {Edit("add", UnknownKeys[i], JNum(One)) : i \in 1..Len(UnknownKeys)}

\* omit and set edits change the entry of a key: at most one of them per key.
Compatible(es) ==
    \A e1 \in es, e2 \in es :
        (e1 # e2 /\ e1.key = e2.key) => (e1.op = "repeat" \/ e2.op = "repeat")

RECURSIVE EditSets(_, _)
EditSets(b, n) ==
    IF n = 0 THEN {{}}
    ELSE LET S == EditSets(b, n - 1) IN
         S \cup {s \cup {e} : s \in S, e \in EditsOf(b)}

Edited(b, es) ==
    LET value(k) == IF \E e \in es : e.op = "set" /\ e.key = k
                    THEN (CHOOSE e \in es : e.op = "set" /\ e.key = k).val
                    ELSE BaseValue(b, k)
        all == [i \in 1..Len(FieldOrder) |-> Entry(FieldOrder[i], value(FieldOrder[i]))]
        extra == [i \in 1..Len(FieldOrder) |-> Entry(FieldOrder[i], BaseValue(b, FieldOrder[i]))]
                    \o [i \in 1..Len(UnknownKeys) |-> Entry(UnknownKeys[i], JNum(One))]
    IN SelectSeq(all, LAMBDA e : Edit("omit", e.key, JNull) \notin es)
        \o SelectSeq(extra, LAMBDA e : Edit("repeat", e.key, e.val) \in es
                                          \/ Edit("add", e.key, e.val) \in es)

Reversed(obj) == [i \in 1..Len(obj) |-> obj[Len(obj) + 1 - i]]
Rotated(obj) ==
    LET n == Len(obj) IN
    IF n < 4 THEN obj ELSE SubSeq(obj, 4, n) \o SubSeq(obj, 1, 3)

InOrder(obj, o) ==
    CASE o = "as_written" -> obj
      [] o = "reversed" -> Reversed(obj)
      [] o = "rotated" -> Rotated(obj)

EditSetsOf(b) == {s \in EditSets(b, MaxEdits) : Compatible(s)}

-----------------------------------------------------------------------------
Init ==
    /\ \/ /\ event \in {Some(e) : e \in Events}
          /\ wire = None
          /\ pc = "serialize"
       \/ /\ event = None
          /\ \E b \in Bases, o \in Orders :
                \E es \in EditSetsOf(b) : wire = Some(InOrder(Edited(b, es), o))
          /\ pc = "deserialize"
    /\ timestamp = None
    /\ out = <<>>
    /\ encoded = None
    /\ pos = 0
    /\ visitor = NewVisitor
    /\ raw = None
    /\ decoded = None

Next ==
    \/ SerializeStart
    \/ SerializeField
    \/ SerializePrevContent
    \/ SerializeUnsigned
    \/ SerializeEnd
    \/ Deserialize
    \/ VisitContent
    \/ VisitEventId
    \/ VisitSender
    \/ VisitOriginServerTs
    \/ VisitRoomId
    \/ VisitStateKey
    \/ VisitPrevContent
    \/ VisitType
    \/ VisitUnsigned
    \/ VisitUnknown
    \/ Finish
    \/ ConvertRaw

Spec == Init /\ [][Next]_vars

-----------------------------------------------------------------------------
(* Properties.                                                              *)

Encoding == IsSome(event)
Decoding == event = None
Finished == pc = "done"
EncodedOk == IsSome(encoded) /\ Unwrap(encoded).ok
\* What the decode returned, once it has returned.
Result == IF IsSome(decoded) THEN Unwrap(decoded) ELSE Unwrap(raw)
\* An envelope, or failure.
Outcome(r) == [ok |-> r.ok, val |-> r.val]
TheWire == Unwrap(wire)
UniqueKeys(obj) == \A i \in 1..Len(obj), j \in 1..Len(obj) : obj[i].key = obj[j].key => i = j
IndexOf(obj, k) == CHOOSE i \in 1..Len(obj) : obj[i].key = k

WholeMillisInRange(t) ==
    /\ ~t.before \/ (IsZero(t.millis) /\ t.nanos = 0)
    /\ t.nanos = 0
    /\ Leq(t.millis, MAX_SAFE_UINT)
SameEventType(ev) ==
    IsSome(ev.prev_content) =>
        event_type_of(Unwrap(ev.prev_content)) = event_type_of(ev.content)

\* C1 as stated: every event whose encoding yields an object decodes from
\* that object to an event equal to it in every field.
RoundTripAnyEvent ==
    (Encoding /\ Finished /\ EncodedOk) => decoded = Some(Ok(Unwrap(event)))

\* C1, amended: an event whose origin_server_ts is the epoch plus a whole
\* number of milliseconds in 0 ..= MAX_SAFE_UINT and whose prev_content, if
\* present, has the event type of its content, encodes to an object that
\* decodes to an event equal to it in every field (an empty unsigned being
\* the default unsigned).
RoundTripWholeMillis ==
    (Encoding /\ Finished /\ WholeMillisInRange(Unwrap(event).origin_server_ts)
        /\ SameEventType(Unwrap(event)))
    => (EncodedOk /\ decoded = Some(Ok(Unwrap(event))))

RoundTripWitness ==
    /\ Encoding /\ Finished /\ EncodedOk
    /\ decoded = Some(Ok(Unwrap(event)))
    /\ IsSome(Unwrap(event).prev_content)
    /\ Unwrap(event).prev_content # Some(Unwrap(event).content)
    /\ ~UnsignedIsEmpty(Unwrap(event).unsigned)
    /\ Unwrap(event).origin_server_ts = SystemTime(FALSE, MAX_SAFE_UINT, 0)

Swapped(obj, i, j) ==
    [n \in 1..Len(obj) |-> IF n = i THEN obj[j] ELSE IF n = j THEN obj[i] ELSE obj[n]]
MovedToEnd(obj, i) ==
    SubSeq(obj, 1, i - 1) \o SubSeq(obj, i + 1, Len(obj)) \o <<obj[i]>>
MovedToFront(obj, i) ==
    <<obj[i]>> \o SubSeq(obj, 1, i - 1) \o SubSeq(obj, i + 1, Len(obj))

\* C2: an object with unique keys decodes to the same outcome (the same
\* event, or failure) when any two of its entries change places, and when
\* `type` is moved in front of or behind all other entries.
OrderIndependent ==
    (Decoding /\ Finished /\ UniqueKeys(TheWire)) =>
        /\ \A i \in 1..Len(TheWire), j \in 1..Len(TheWire) :
              i < j => Outcome(Decode(Swapped(TheWire, i, j))) = Outcome(Result)
        /\ \A i \in 1..Len(TheWire) :
              TheWire[i].key = "type" =>
                /\ Outcome(Decode(MovedToEnd(TheWire, i))) = Outcome(Result)
                /\ Outcome(Decode(MovedToFront(TheWire, i))) = Outcome(Result)

OrderIndependentWitness ==
    /\ Decoding /\ Finished /\ UniqueKeys(TheWire)
    /\ IsSome(decoded) /\ Unwrap(decoded).ok
    /\ HasKey(TheWire, "prev_content")
    /\ IndexOf(TheWire, "type") > IndexOf(TheWire, "content")
    /\ IndexOf(TheWire, "type") > IndexOf(TheWire, "prev_content")
    /\ Decode(MovedToFront(TheWire, IndexOf(TheWire, "type"))) = Unwrap(decoded)

Known(obj) == SelectSeq(obj, LAMBDA e : e.key \in FIELDS)

\* C3: an object that decodes to an event still decodes to that event with
\* entries of unknown keys added anywhere.
UnknownKeysIgnored ==
    (Decoding /\ Finished /\ Known(TheWire) # TheWire /\ Decode(Known(TheWire)).ok)
        => Result = Decode(Known(TheWire))


RepeatedKeyAt(obj, i) ==
    /\ obj[i].key \in FIELDS
    /\ \E j \in 1..(i - 1) : obj[j].key = obj[i].key

\* C4: when the walk meets a recognized key for the second time, visit_map
\* returns at once the duplicate-field error naming that key, without
\* reading the value; and no object holding a recognized key twice is ever
\* decoded to an event.
DuplicateRejection ==
    [][ /\ (pc = "walk" /\ pos <= Len(TheWire) /\ RepeatedKeyAt(TheWire, pos)) =>
             /\ pc' = "done"
             /\ raw' = Some(Err(DuplicateFieldError(TheWire[pos].key)))
             /\ visitor'.reads = visitor.reads
             /\ decoded' = None
        /\ (IsSome(raw') /\ Unwrap(raw').ok) =>
             \A k \in FIELDS : Count(Unwrap(wire'), k) <= 1
      ]_vars

DuplicateRejectionWitness ==
    /\ Decoding /\ Finished
    /\ pos <= Len(TheWire)
    /\ RepeatedKeyAt(TheWire, pos)
    /\ TheWire[pos].val # TheWire[IndexOf(TheWire, TheWire[pos].key)].val
    /\ raw = Some(Err(DuplicateFieldError(TheWire[pos].key)))

Required == {"type", "content", "event_id", "sender", "origin_server_ts", "room_id", "state_key"}
\* The object decodes once an entry for k is added to it.
LacksOnly(obj, k) ==
    /\ ~HasKey(obj, k)
    /\ \E b \in Bases : Decode(Append(obj, Entry(k, BaseValue(b, k)))).ok

\* C5: an object that lacks exactly one required field, and is valid
\* otherwise, fails to decode with the missing-field error naming that
\* field; an object that lacks prev_content or unsigned, and is valid
\* otherwise, decodes, to an event with no prev_content or with the default
\* unsigned.
MissingFieldNamed ==
    (Decoding /\ Finished) =>
        /\ \A k \in Required :
              LacksOnly(TheWire, k) => raw = Some(Err(MissingFieldError(k)))
        /\ LacksOnly(TheWire, "prev_content") =>
              (IsSome(decoded) /\ Unwrap(decoded).ok
                 /\ Unwrap(Unwrap(decoded).val).prev_content = None)
        /\ LacksOnly(TheWire, "unsigned") =>
              (IsSome(decoded) /\ Unwrap(decoded).ok
                 /\ Unwrap(Unwrap(decoded).val).unsigned = UnsignedDefault)

MissingFieldWitness ==
    /\ Decoding /\ Finished
    /\ LacksOnly(TheWire, "state_key")
    /\ HasKey(TheWire, "prev_content")
    /\ raw = Some(Err(MissingFieldError("state_key")))

HasNull(obj) == \E i \in 1..Len(obj) : obj[i].val = JNull

\* C6: the object an encoding returns has a prev_content key exactly when
\* the event has a prev_content, an unsigned key exactly when the event's
\* unsigned is not empty, and no null value.
OmissionCorrect ==
    EncodedOk =>
        LET obj == Unwrap(Unwrap(encoded).val) ev == Unwrap(event) IN
        /\ HasKey(obj, "prev_content") <=> IsSome(ev.prev_content)
        /\ HasKey(obj, "unsigned") <=> ~UnsignedIsEmpty(ev.unsigned)
        /\ ~HasNull(obj)

OmissionWitness ==
    /\ EncodedOk
    /\ Unwrap(event).prev_content = None
    /\ UnsignedIsEmpty(Unwrap(event).unsigned)
    /\ Len(Unwrap(Unwrap(encoded).val)) = 7

Unrepresentable(t) ==
    \/ t.before /\ ~(IsZero(t.millis) /\ t.nanos = 0)
    \/ ~Leq(t.millis, MAX_SAFE_UINT)

\* C7: encoding an event whose origin_server_ts is before the epoch or more
\* than MAX_SAFE_UINT milliseconds after it returns an error value, with no
\* field written.
EncodeFailureReturned ==
    (Encoding /\ pc # "serialize" /\ Unrepresentable(Unwrap(event).origin_server_ts)) =>
        /\ IsSome(encoded)
        /\ ~Unwrap(encoded).ok
        /\ Unwrap(Unwrap(encoded).err).kind = "custom"
        /\ out = <<>>

\* The wire timestamp of an object that has exactly one.
HasOneTimestamp(obj) ==
    Count(obj, "origin_server_ts") = 1 /\ obj[IndexOf(obj, "origin_server_ts")].val.t = "num"
WireTimestamp(obj) == obj[IndexOf(obj, "origin_server_ts")].val.n
InUIntRange(n) == ~IsNegative(n) /\ Leq(n, MAX_SAFE_UINT)

\* C8: a wire origin_server_ts w in 0 ..= MAX_SAFE_UINT is never refused
\* and, when the object decodes, becomes the epoch plus exactly w
\* milliseconds, which encodes to w again; a w below 0 or above
\* MAX_SAFE_UINT never decodes.
TimestampBounds ==
    (Decoding /\ Finished /\ HasOneTimestamp(TheWire)) =>
        LET w == WireTimestamp(TheWire) IN
        /\ InUIntRange(w) =>
              /\ raw # Some(Err(InvalidValueError("origin_server_ts")))
              /\ (IsSome(decoded) /\ Unwrap(decoded).ok) =>
                    LET t == Unwrap(Unwrap(decoded).val).origin_server_ts IN
                    /\ t = SystemTime(FALSE, w, 0)
                    /\ ToTimestamp(t) = Ok(w)
        /\ ~InUIntRange(w) => (decoded = None /\ ~Unwrap(raw).ok)

TimestampBoundsWitness ==
    /\ Decoding /\ Finished /\ HasOneTimestamp(TheWire)
    /\ WireTimestamp(TheWire) = MAX_SAFE_UINT
    /\ IsSome(decoded) /\ Unwrap(decoded).ok
    /\ Unwrap(Unwrap(decoded).val).origin_server_ts = SystemTime(FALSE, MAX_SAFE_UINT, 0)

WireOrder ==
    <<"type", "content", "event_id", "sender", "origin_server_ts", "room_id",
      "state_key", "prev_content", "unsigned">>
KeySeq(obj) == [i \in 1..Len(obj) |-> obj[i].key]
IsPrefix(a, b) == Len(a) <= Len(b) /\ a = SubSeq(b, 1, Len(a))

\* C9: the keys written so far are always the first keys of
\* type, content, event_id, sender, origin_server_ts, room_id, state_key,
\* prev_content (if emitted), unsigned (if emitted); an encoding that
\* returns has written all of them, each once, and the value of `type` is
\* content.event_type().
EncoderFieldOrder ==
    Encoding =>
        LET ev == Unwrap(event)
            expected == SelectSeq(WireOrder,
                          LAMBDA k : /\ (k = "prev_content" => IsSome(ev.prev_content))
                                     /\ (k = "unsigned" => ~UnsignedIsEmpty(ev.unsigned)))
        IN
        /\ IsPrefix(KeySeq(out), expected)
        /\ EncodedOk => KeySeq(Unwrap(Unwrap(encoded).val)) = expected
        /\ Len(out) >= 1 => out[1].val = JStr(event_type_of(ev.content))

EncoderFieldOrderWitness ==
    /\ EncodedOk
    /\ KeySeq(Unwrap(Unwrap(encoded).val)) = WireOrder

\* C10: from_parts is called only once the walk is over and `type` was
\* found; every call is given the `type` string of the object; it is
\* called at most once for content and at most once for prev_content,
\* content first, the latter only if prev_content was captured; a decode
\* that returns an event has called it for content, and for prev_content
\* exactly when the object has one.
SingleDiscriminator ==
    LET calls == visitor.calls IN
    /\ calls # <<>> =>
          /\ pc \in {"try_from_raw", "done"}
          /\ pos > Len(TheWire)
          /\ HasKey(TheWire, "type")
          /\ \A i \in 1..Len(calls) :
                JStr(calls[i].event_type) = TheWire[IndexOf(TheWire, "type")].val
          /\ Len(calls) <= 2
          /\ calls[1].slot = "content"
          /\ Len(calls) = 2 => (calls[2].slot = "prev_content" /\ HasKey(TheWire, "prev_content"))
    /\ (IsSome(raw) /\ Unwrap(raw).ok) =>
          Len(calls) = IF HasKey(TheWire, "prev_content") THEN 2 ELSE 1
    /\ (IsSome(wire) /\ ~HasKey(TheWire, "type")) => calls = <<>>

SingleDiscriminatorWitness ==
    /\ Decoding /\ Finished
    /\ IsSome(decoded) /\ Unwrap(decoded).ok
    /\ Len(visitor.calls) = 2
    /\ visitor.calls[1].event_type = "m.room.avatar"
    /\ visitor.calls[2].event_type = "m.room.avatar"
    /\ IndexOf(TheWire, "type") > IndexOf(TheWire, "prev_content")


\* The walk came to the end of the object: no duplicate, unknown key or
\* refused value made visit_map return from inside the loop.
WalkCompleted == Decoding /\ Finished /\ IsSome(raw) /\ visitor.err = None

\* Whether the failure e applies to an object: a required field is absent,
\* or the payload in slot e.field is refused under the object's `type`.
Applies(obj, e) ==
    IF e.kind = "missing_field" THEN ~HasKey(obj, e.field)
    ELSE /\ HasKey(obj, "type")
         /\ HasKey(obj, e.field)
         /\ ~from_parts(obj[IndexOf(obj, "type")].val.s, obj[IndexOf(obj, e.field)].val).ok

Defective(obj, order) == \E i \in 1..Len(order) : Applies(obj, order[i])
FirstApplicable(obj, order) ==
    order[CHOOSE i \in 1..Len(order) :
            Applies(obj, order[i]) /\ \A j \in 1..(i - 1) : ~Applies(obj, order[j])]

\* The precedence C11 states: prev_content is resolved right after content.
StatedPrecedence ==
    <<MissingFieldError("type"), MissingFieldError("content"), CustomError("content"),
      CustomError("prev_content"),
      MissingFieldError("event_id"), MissingFieldError("sender"),
      MissingFieldError("origin_server_ts"), MissingFieldError("room_id"),
      MissingFieldError("state_key")>>

\* The same, with the rejection of prev_content last.
PrevContentLastPrecedence ==
    <<MissingFieldError("type"), MissingFieldError("content"), CustomError("content"),
      MissingFieldError("event_id"), MissingFieldError("sender"),
      MissingFieldError("origin_server_ts"), MissingFieldError("room_id"),
      MissingFieldError("state_key"),
      CustomError("prev_content")>>

\* C11 as stated: after a completed walk, decode reports the first
\* applicable of missing type, missing content, content rejected,
\* prev_content rejected, missing event_id, sender, origin_server_ts,
\* room_id, state_key.
FailurePrecedenceAsStated ==
    (WalkCompleted /\ Defective(TheWire, StatedPrecedence)) =>
        raw = Some(Err(FirstApplicable(TheWire, StatedPrecedence)))

\* C11, amended: after a completed walk, decode reports the first
\* applicable of missing type, missing content, content rejected, missing
\* event_id, sender, origin_server_ts, room_id, state_key, and only then
\* prev_content rejected; with none of these it returns an event.
FailurePrecedence ==
    WalkCompleted =>
        IF Defective(TheWire, PrevContentLastPrecedence)
        THEN raw = Some(Err(FirstApplicable(TheWire, PrevContentLastPrecedence)))
        ELSE Unwrap(raw).ok

\* A rejected prev_content together with a missing event_id.
FailurePrecedenceWitness ==
    /\ WalkCompleted
    /\ Applies(TheWire, CustomError("prev_content"))
    /\ Applies(TheWire, MissingFieldError("event_id"))
    /\ raw = Some(Err(MissingFieldError("event_id")))

====
